---- MODULE Spec2Model ----
(***************************************************************************)
(* Product-catalog backend: admin login issuing signed bearer tokens       *)
(* (auth.py), the token gate on the mutating product routes and the        *)
(* product CRUD handlers over a document collection (server.py), with the  *)
(* pydantic models of models.py.                                           *)
(*                                                                         *)
(* Time is counted in ticks, TicksPerSecond ticks to the second, so that   *)
(* the whole-second "exp" claim that jwt.encode writes can differ from the *)
(* datetime create_access_token computed.  Optional values are sequences   *)
(* of length at most one: <<>> is None and <<v>> is the value v.           *)
(***************************************************************************)
EXTENDS Integers, Sequences, FiniteSets, TLC

VARIABLES
    now,        \* the wall clock (datetime.utcnow), in ticks
    advances,   \* how many times the clock has been advanced
    issued,     \* the tokens handed out so far, each with its issue data
    store,      \* db.products: the documents, in natural order
    nextId,     \* the next fresh uuid4
    deleted,    \* ids whose delete_one has removed a document
    inflight,   \* the update_product request suspended at an await, if any
    resp        \* the response of the request that completed last, at the
                \* present clock reading

vars == <<now, advances, issued, store, nextId, deleted, inflight, resp>>

-----------------------------------------------------------------------------
(* Bounds of the model *)

TicksPerSecond == 2
MaxAdvances == 1
MaxProducts == 2
GateProducts == 1
MaxTicks == 4
ListHeadroom == 2

(* Program constants *)

DefaultTokenHours == 24
ToListLength == 1000

ADMIN_USERNAME == "admin"
ADMIN_PASSWORD == "admin123"
SECRET_KEY == "your-secret-key-change-in-production"

Day == DefaultTokenHours * 3600 * TicksPerSecond

Null == << >>
Some(v) == << v >>

Min(a, b) == IF a < b THEN a ELSE b

-----------------------------------------------------------------------------
(* auth.py *)

\* Mutant: only the username is compared.
verify_admin_credentials_username_only(username, password) ==
    username = ADMIN_USERNAME

verify_admin_credentials(username, password) ==
    username = ADMIN_USERNAME /\ password = ADMIN_PASSWORD

\* The HMAC of a payload under a key, taken as unforgeable: equal exactly
\* when key and payload are equal.
Sign(key, payload) == [key |-> key, payload |-> payload]

\* jwt.encode: a datetime "exp" is written as whole seconds since the epoch
\* (timegm of its utctimetuple), the fraction of a second is dropped.
jwt_encode(to_encode, key) ==
    LET payload == [sub |-> to_encode.sub,
                    exp |-> to_encode.exp \div TicksPerSecond]
    IN  [wf |-> TRUE, payload |-> payload, sig |-> Sign(key, payload)]

\* expires_delta is None (Null) or a timedelta in ticks; `if expires_delta:`
\* is false for None and for timedelta(0).
create_access_token(data, expires_delta, t) ==
    LET expire == IF expires_delta # Null /\ expires_delta[1] # 0
                  THEN t + expires_delta[1]
                  ELSE t + Day
    IN  jwt_encode([sub |-> data.sub, exp |-> expire], SECRET_KEY)

\* Mutant: decoding with signature verification switched off.
jwt_decode_unverified(token, key, t) ==
    IF ~token.wf THEN "DecodeError"
    ELSE IF token.payload.exp * TicksPerSecond <= t THEN "ExpiredSignatureError"
    ELSE "ok"

\* Mutant: a token still counts as live at the instant of its expiration.
jwt_decode_late(token, key, t) ==
    IF ~token.wf THEN "DecodeError"
    ELSE IF token.sig # Sign(key, token.payload) THEN "InvalidSignatureError"
    ELSE IF token.payload.exp * TicksPerSecond < t THEN "ExpiredSignatureError"
    ELSE "ok"

\* jwt.decode(token, key, algorithms=[ALGORITHM]) at time t, as PyJWT 2 does
\* it: the segments are parsed, the signature is verified, then "exp" is
\* validated (expired when exp <= now).
jwt_decode(token, key, t) ==
    IF ~token.wf THEN "DecodeError"
    ELSE IF token.sig # Sign(key, token.payload) THEN "InvalidSignatureError"
    ELSE IF token.payload.exp * TicksPerSecond <= t THEN "ExpiredSignatureError"
    ELSE "ok"

AuthOk(username) ==
    [ok |-> TRUE, status |-> 200, detail |-> "", username |-> Some(username)]

AuthFail(status, detail) ==
    [ok |-> FALSE, status |-> status, detail |-> detail, username |-> Null]

\* Security(HTTPBearer()): a request without an Authorization bearer header
\* is refused by the scheme itself (403 "Not authenticated"), before
\* verify_token's body runs.
HTTPBearer(credentials) ==
    IF credentials = Null THEN AuthFail(403, "Not authenticated")
    ELSE AuthOk("")

\* The handler chain of verify_token's try statement for an exception that
\* is not ExpiredSignatureError: the second clause names jwt.JWTError, which
\* the jwt module does not define, so evaluating the clause raises
\* AttributeError and the request ends as an unhandled server error.
except_JWTError(raised) ==
    AuthFail(500, "Internal Server Error")

verify_token(credentials, t) ==
    IF ~HTTPBearer(credentials).ok THEN HTTPBearer(credentials)
    ELSE LET token == credentials[1]
             decoded == jwt_decode(token, SECRET_KEY, t)
         IN  IF decoded = "ok"
             THEN IF token.payload.sub = Null
                  THEN except_JWTError("HTTPException")
                  ELSE AuthOk(token.payload.sub[1])
             ELSE IF decoded = "ExpiredSignatureError"
                  THEN AuthFail(403, "Token expirado")
                  ELSE except_JWTError(decoded)

-----------------------------------------------------------------------------
(* models.py *)

CreateFields ==
    {"name", "category", "price", "image", "description", "specs", "rating",
     "reviews", "featured", "affiliateLink"}

RequiredFields ==
    {"name", "category", "price", "image", "description", "affiliateLink"}

UpdateFields == CreateFields

ProductFields == CreateFields \cup {"id", "createdAt", "updatedAt"}

\* Field defaults of Product and ProductCreate; rating counts tenths.
FieldDefault(f) ==
    CASE f = "specs" -> Some(<< >>)
      [] f = "rating" -> Some(45)
      [] f = "reviews" -> Some(0)
      [] f = "featured" -> Some(FALSE)
      [] OTHER -> Null

\* A request body is the pair pydantic keeps: the names of the fields the
\* body gave (model_fields_set) and a value for every field.
\* ProductCreate(**body).model_dump(): every field, defaults for those unset.
ProductCreate(body) ==
    [f \in CreateFields |-> IF f \in body.set THEN body.val[f] ELSE FieldDefault(f)]

\* Mutant: model_dump() without exclude_unset, every field in the mapping.
ProductUpdate_dump_all(body) ==
    [set |-> UpdateFields,
     val |-> [f \in UpdateFields |-> IF f \in body.set THEN body.val[f] ELSE Null]]

\* ProductUpdate(**body).model_dump(exclude_unset=True): the fields the
\* body gave, an explicit null included, as a partial mapping.
ProductUpdate(body) ==
    [set |-> body.set \cap UpdateFields,
     val |-> [f \in UpdateFields |-> IF f \in body.set THEN body.val[f] ELSE Null]]

\* datetime.isoformat() of a clock reading: seconds and the fraction.
isoformat(t) == << t \div TicksPerSecond, t % TicksPerSecond >>

\* Product(**product_dict) followed by model_dump() and the two isoformat()
\* conversions: the document create_product inserts.
Product(product_dict, id, t) ==
    [f \in ProductFields |->
        CASE f = "id" -> Some(id)
          [] f = "createdAt" -> Some(isoformat(t))
          [] f = "updatedAt" -> Some(isoformat(t))
          [] OTHER -> product_dict[f]]

\* Validation of a stored document against Product (Product(**doc), and the
\* response_model of the read routes): no field of Product admits None.
ProductValid(doc) == \A f \in ProductFields : doc[f] # Null

-----------------------------------------------------------------------------
(* db.products *)

Matching(coll, id) == {i \in 1..Len(coll) : coll[i]["id"] = Some(id)}

First(S) == CHOOSE i \in S : \A j \in S : i <= j

find_one(coll, id) ==
    IF Matching(coll, id) = {} THEN Null
    ELSE Some(coll[First(Matching(coll, id))])

insert_one(coll, doc) == Append(coll, doc)

\* update_one(filter, {"$set": update_data}): the first matching document
\* gets the fields of update_data, the rest of it and of the collection stay.
update_one(coll, id, update_data) ==
    IF Matching(coll, id) = {} THEN coll
    ELSE LET k == First(Matching(coll, id))
         IN  [coll EXCEPT ![k] =
                 [f \in ProductFields |->
                     IF f \in update_data.set THEN update_data.val[f] ELSE coll[k][f]]]

RemoveAt(coll, k) == SubSeq(coll, 1, k - 1) \o SubSeq(coll, k + 1, Len(coll))

delete_one(coll, id) ==
    IF Matching(coll, id) = {} THEN [coll |-> coll, deleted_count |-> 0]
    ELSE [coll |-> RemoveAt(coll, First(Matching(coll, id))), deleted_count |-> 1]

to_list(coll, length) == SubSeq(coll, 1, Min(Len(coll), length))

-----------------------------------------------------------------------------
(* Inputs of the requests *)

Usernames == {"admin", "Admin"}
Passwords == {"admin123", "admin"}

\* Clock steps of the request sequences: the lifetime of a login token.
Durations == {Day}

\* A token signed by somebody who does not hold SECRET_KEY.
WrongKeyToken ==
    LET payload == [sub |-> Some(ADMIN_USERNAME),
                    exp |-> (MaxAdvances + 2) * DefaultTokenHours * 3600]
    IN  [wf |-> TRUE, payload |-> payload, sig |-> Sign("another-key", payload)]

\* An issued token whose payload was edited to expire a day later, the
\* signature left as it was.
Tampered(token) ==
    [token EXCEPT !.payload.exp = @ + DefaultTokenHours * 3600]

\* A bearer string that is not three base64 segments.
Malformed == [WrongKeyToken EXCEPT !.wf = FALSE]

Tokens(iss) == {r.token : r \in iss}

\* What a client can put in the Authorization header: nothing, a token it
\* was given, or one it made up without the secret.
Credentials(iss) ==
    {Null} \cup {Some(tk) : tk \in Tokens(iss)}
           \cup {Some(Tampered(tk)) : tk \in Tokens(iss)}
           \cup {Some(WrongKeyToken), Some(Malformed)}

NoneBody == [f \in UpdateFields |-> Null]

CreateInputs ==
    {[set |-> RequiredFields,
      val |-> [NoneBody EXCEPT !["name"] = Some("X"), !["category"] = Some("Electronica"),
                               !["price"] = Some(999), !["image"] = Some("u"),
                               !["description"] = Some("d"), !["affiliateLink"] = Some("l")]],
     [set |-> CreateFields,
      val |-> [NoneBody EXCEPT !["name"] = Some("Y"), !["category"] = Some("Hogar"),
                               !["price"] = Some(-1), !["image"] = Some("v"),
                               !["description"] = Some("e"), !["affiliateLink"] = Some("m"),
                               !["specs"] = Some(<<"s">>), !["rating"] = Some(50),
                               !["reviews"] = Some(-3), !["featured"] = Some(TRUE)]]}

UpdateInputs ==
    {[set |-> {"price"}, val |-> [NoneBody EXCEPT !["price"] = Some(1000)]],
     [set |-> {"name", "featured"}, val |-> [NoneBody EXCEPT !["featured"] = Some(TRUE)]]}

ProductIds == 1..MaxProducts

-----------------------------------------------------------------------------
(* State *)

NoResp ==
    [op |-> "none", status |-> 0, detail |-> "", id |-> 0, cred |-> Null,
     user |-> "", pass |-> "", token |-> Null, username |-> Null,
     product |-> Null, items |-> << >>]

Idle == [pc |-> "idle", id |-> 0, body |-> [set |-> {}, val |-> NoneBody],
         cred |-> Null, at |-> 0]

Init ==
    /\ now = 0
    /\ advances = 0
    /\ issued = {}
    /\ store = << >>
    /\ nextId = 1
    /\ deleted = {}
    /\ inflight = Idle
    /\ resp = NoResp

\* The response of a request the token gate refused.
Refused(op, cred, auth) ==
    [NoResp EXCEPT !.op = op, !.status = auth.status, !.detail = auth.detail,
                   !.cred = cred]

\* The clock moves on by one of the given steps, at most limit times.
Tick(steps, limit) ==
    /\ advances < limit
    /\ \E d \in steps : now' = now + d
    /\ advances' = advances + 1
    /\ resp' = NoResp
    /\ UNCHANGED <<issued, store, nextId, deleted, inflight>>

-----------------------------------------------------------------------------
(* server.py *)

admin_login(username, password) ==
    IF ~verify_admin_credentials(username, password)
    THEN /\ resp' = [NoResp EXCEPT !.op = "login", !.status = 401,
                                   !.detail = "Credenciales incorrectas",
                                   !.user = username, !.pass = password]
         /\ UNCHANGED <<now, advances, issued, store, nextId, deleted, inflight>>
    ELSE LET access_token == create_access_token([sub |-> Some(username)], Some(Day), now)
             rec == [token |-> access_token, iat |-> now, ttl |-> Some(Day),
                     sub |-> Some(username)]
         IN  /\ issued' = issued \cup {rec}
             /\ resp' = [NoResp EXCEPT !.op = "login", !.status = 200,
                                       !.user = username, !.pass = password,
                                       !.token = Some(access_token),
                                       !.username = Some(username)]
             /\ UNCHANGED <<now, advances, store, nextId, deleted, inflight>>

verify_admin(cred) ==
    LET auth == verify_token(cred, now)
    IN  /\ resp' = IF auth.ok
                   THEN [NoResp EXCEPT !.op = "verify", !.status = 200, !.cred = cred,
                                       !.username = auth.username]
                   ELSE Refused("verify", cred, auth)
        /\ UNCHANGED <<now, advances, issued, store, nextId, deleted, inflight>>

get_products ==
    LET products == to_list(store, ToListLength)
    IN  /\ resp' = IF \A i \in 1..Len(products) : ProductValid(products[i])
                   THEN [NoResp EXCEPT !.op = "list", !.status = 200,
                                       !.items = products]
                   ELSE [NoResp EXCEPT !.op = "list", !.status = 500,
                                       !.detail = "Internal Server Error"]
        /\ UNCHANGED <<now, advances, issued, store, nextId, deleted, inflight>>

get_product(product_id) ==
    LET product == find_one(store, product_id)
    IN  /\ resp' = IF product = Null
                   THEN [NoResp EXCEPT !.op = "get", !.status = 404, !.id = product_id,
                                       !.detail = "Producto no encontrado"]
                   ELSE IF ~ProductValid(product[1])
                   THEN [NoResp EXCEPT !.op = "get", !.status = 500, !.id = product_id,
                                       !.detail = "Internal Server Error"]
                   ELSE [NoResp EXCEPT !.op = "get", !.status = 200, !.id = product_id,
                                       !.product = product]
        /\ UNCHANGED <<now, advances, issued, store, nextId, deleted, inflight>>

\* lastId bounds the ids the model hands out.
create_product(cred, body, lastId) ==
    LET auth == verify_token(cred, now)
        doc == Product(ProductCreate(body), nextId, now)
    IN  IF ~auth.ok
        THEN /\ resp' = Refused("create", cred, auth)
             /\ UNCHANGED <<now, advances, issued, store, nextId, deleted, inflight>>
        ELSE /\ nextId <= lastId
             /\ store' = insert_one(store, doc)
             /\ nextId' = nextId + 1
             /\ resp' = [NoResp EXCEPT !.op = "create", !.status = 200, !.id = nextId,
                                       !.cred = cred, !.product = Some(doc)]
             /\ UNCHANGED <<now, advances, issued, deleted, inflight>>

\* update_product up to its first await: the token gate and the existence
\* check.
update_product_find(cred, product_id, body) ==
    LET auth == verify_token(cred, now)
    IN  /\ inflight.pc = "idle"
        /\ IF ~auth.ok
           THEN /\ resp' = Refused("update", cred, auth)
                /\ UNCHANGED inflight
           ELSE IF find_one(store, product_id) = Null
           THEN /\ resp' = [NoResp EXCEPT !.op = "update", !.status = 404,
                                          !.id = product_id, !.cred = cred,
                                          !.detail = "Producto no encontrado"]
                /\ UNCHANGED inflight
           ELSE /\ inflight' = [pc |-> "write", id |-> product_id, body |-> body,
                                 cred |-> cred, at |-> now]
                /\ UNCHANGED resp
        /\ UNCHANGED <<now, advances, issued, store, nextId, deleted>>

\* update_data with its updatedAt, and the update_one.
update_product_write ==
    LET q == inflight
        dumped == ProductUpdate(q.body)
        update_data ==
            [set |-> dumped.set \cup {"updatedAt"},
             val |-> [f \in UpdateFields \cup {"updatedAt"} |->
                         IF f = "updatedAt" THEN Some(isoformat(now)) ELSE dumped.val[f]]]
    IN  /\ q.pc = "write"
        /\ store' = update_one(store, q.id, update_data)
        /\ inflight' = [inflight EXCEPT !.pc = "read"]
        /\ UNCHANGED <<now, advances, issued, nextId, deleted, resp>>

\* The read-back and Product(**updated_product): a TypeError when the
\* document is gone, a ValidationError when a field of it is null.
update_product_read ==
    LET q == inflight
        updated_product == find_one(store, q.id)
    IN  /\ q.pc = "read"
        /\ resp' = IF updated_product = Null \/ ~ProductValid(updated_product[1])
                   THEN [NoResp EXCEPT !.op = "update", !.status = 500, !.id = q.id,
                                       !.cred = q.cred,
                                       !.detail = "Internal Server Error"]
                   ELSE [NoResp EXCEPT !.op = "update", !.status = 200, !.id = q.id,
                                       !.cred = q.cred,
                                       !.product = updated_product]
        /\ inflight' = Idle
        /\ UNCHANGED <<now, advances, issued, store, nextId, deleted>>

delete_product(cred, product_id) ==
    LET auth == verify_token(cred, now)
        result == delete_one(store, product_id)
    IN  IF ~auth.ok
        THEN /\ resp' = Refused("delete", cred, auth)
             /\ UNCHANGED <<now, advances, issued, store, nextId, deleted, inflight>>
        ELSE IF result.deleted_count = 0
        THEN /\ resp' = [NoResp EXCEPT !.op = "delete", !.status = 404, !.id = product_id,
                                       !.cred = cred,
                                       !.detail = "Producto no encontrado"]
             /\ UNCHANGED <<now, advances, issued, store, nextId, deleted, inflight>>
        ELSE /\ store' = result.coll
             /\ deleted' = deleted \cup {product_id}
             /\ resp' = [NoResp EXCEPT !.op = "delete", !.status = 200, !.id = product_id,
                                       !.cred = cred,
                                       !.detail = "Producto eliminado exitosamente"]
             /\ UNCHANGED <<now, advances, issued, nextId, inflight>>

Advance == Tick(Durations, MaxAdvances)

Login == \E u \in Usernames, p \in Passwords : admin_login(u, p)

\* The routes, over the credentials, ids and bodies a specification offers.
Verify(creds) == \E c \in creds : verify_admin(c)

List == get_products

Get(ids) == \E id \in ids : get_product(id)

Create(creds, bodies, lastId) ==
    \E c \in creds, b \in bodies : create_product(c, b, lastId)

UpdateFind(creds, ids, bodies) ==
    \E c \in creds, id \in ids, b \in bodies : update_product_find(c, id, b)

UpdateWrite == update_product_write

UpdateRead == update_product_read

Delete(creds, ids) == \E c \in creds, id \in ids : delete_product(c, id)

Next ==
    \/ Advance
    \/ Login
    \/ Verify(Credentials(issued))
    \/ List
    \/ Get(ProductIds)
    \/ Create(Credentials(issued), CreateInputs, MaxProducts)
    \/ UpdateFind(Credentials(issued), ProductIds, UpdateInputs)
    \/ UpdateWrite
    \/ UpdateRead
    \/ Delete(Credentials(issued), ProductIds)

Spec == Init /\ [][Next]_vars

-----------------------------------------------------------------------------
(* create_access_token and verify_token on their own: one token is issued  *)
(* for some data and expires_delta at some clock reading, and is presented *)
(* to the token gate as the clock moves on in ticks.                       *)

TokenData == {[sub |-> Some(ADMIN_USERNAME)], [sub |-> Null]}

TokenDeltas ==
    {Null, Some(0), Some(-1), Some(1), Some(TicksPerSecond), Some(TicksPerSecond + 1)}

TokenSteps == {1, Day - 2}

TokenTick == Tick(TokenSteps, MaxTicks)

TokenIssue ==
    /\ issued = {}
    /\ \E data \in TokenData, delta \in TokenDeltas :
           issued' = {[token |-> create_access_token(data, delta, now), iat |-> now,
                       ttl |-> delta, sub |-> data.sub]}
    /\ UNCHANGED <<now, advances, store, nextId, deleted, inflight, resp>>

TokenVerify == \E r \in issued : verify_admin(Some(r.token))

NextToken ==
    \/ TokenTick
    \/ TokenIssue
    \/ TokenVerify

SpecToken == Init /\ [][NextToken]_vars

-----------------------------------------------------------------------------
(* The token gate in front of the routes: every kind of credential and the *)
(* clock, over a collection of GateProducts products and one body each.    *)

FirstBody == CHOOSE b \in CreateInputs : b.set = RequiredFields

PriceBody == CHOOSE b \in UpdateInputs : b.set = {"price"}

GateIds == 1..GateProducts

NextGate ==
    \/ Advance
    \/ Login
    \/ Verify(Credentials(issued))
    \/ List
    \/ Get(GateIds)
    \/ Create(Credentials(issued), {FirstBody}, GateProducts)
    \/ UpdateFind(Credentials(issued), GateIds, {PriceBody})
    \/ UpdateWrite
    \/ UpdateRead
    \/ Delete(Credentials(issued), GateIds)

SpecGate == Init /\ [][NextGate]_vars

-----------------------------------------------------------------------------
(* The product routes at one clock reading, for clients that present the   *)
(* token login gave them or none: every body, MaxProducts products.        *)

StoreCredentials == {Null} \cup {Some(tk) : tk \in Tokens(issued)}

NextStore ==
    \/ Login
    \/ List
    \/ Get(ProductIds)
    \/ Create(StoreCredentials, CreateInputs, MaxProducts)
    \/ UpdateFind(StoreCredentials, ProductIds, UpdateInputs)
    \/ UpdateWrite
    \/ UpdateRead
    \/ Delete(StoreCredentials, ProductIds)

SpecStore == Init /\ [][NextStore]_vars

-----------------------------------------------------------------------------
(* The collection at the length get_products asks its cursor for: after a  *)
(* login, ToListLength products have been created.                         *)

LoginToken == create_access_token([sub |-> Some(ADMIN_USERNAME)], Some(Day), 0)

InitList ==
    /\ now = 0
    /\ advances = 0
    /\ issued = {[token |-> LoginToken, iat |-> 0, ttl |-> Some(Day),
                  sub |-> Some(ADMIN_USERNAME)]}
    /\ store = [i \in 1..ToListLength |-> Product(ProductCreate(FirstBody), i, 0)]
    /\ nextId = ToListLength + 1
    /\ deleted = {}
    /\ inflight = Idle
    /\ resp = NoResp

ListCredentials == {Null, Some(LoginToken)}

ListIds == {1, ToListLength, ToListLength + 1}

NextList ==
    \/ Create(ListCredentials, CreateInputs, ToListLength + ListHeadroom)
    \/ Delete(ListCredentials, ListIds)
    \/ Get(ListIds)
    \/ List

SpecList == InitList /\ [][NextList]_vars

-----------------------------------------------------------------------------
(* Properties *)

\* A bearer credential that verifies at time t, as the token's definition
\* has it: well formed, signed with the secret, a subject present, and t
\* before the expiration the token carries.
TokenVerifies(cred, t) ==
    /\ cred # Null
    /\ cred[1].wf
    /\ cred[1].sig = [key |-> SECRET_KEY, payload |-> cred[1].payload]
    /\ cred[1].payload.sub # Null
    /\ t < cred[1].payload.exp * TicksPerSecond

\* The step is the read-back that ends an update request admitted earlier.
ReadBack == inflight.pc = "read" /\ inflight'.pc = "idle"

Protected == {"create", "update", "delete"}

\* C1: the product collection changes only in a step of a create, update or
\* delete request whose bearer token verified; a create, update or delete
\* request whose token is missing, invalid or expired ends refused, without
\* the outcome of any store operation, and leaves the collection as it was.
GateGuardsStore ==
    [][ /\ (store' # store) =>
              \/ /\ resp'.op \in {"create", "delete"}
                 /\ resp'.status = 200
                 /\ TokenVerifies(resp'.cred, now)
              \/ /\ inflight.pc = "write"
                 /\ inflight'.pc = "read"
                 /\ TokenVerifies(inflight.cred, inflight.at)
        /\ (/\ resp' # resp
            /\ resp'.op \in Protected
            /\ ~ReadBack
            /\ ~TokenVerifies(resp'.cred, now)) =>
              /\ store' = store
              /\ resp'.status \notin {200, 404} ]_vars

\* C1 witness: a create with an expired token is refused while the
\* collection holds a product created before the token expired.
ExpiredCreateRefused ==
    /\ resp.op = "create"
    /\ resp.status = 403
    /\ resp.cred \in {Some(tk) : tk \in Tokens(issued)}
    /\ Len(store) > 0

ClaimedDelta(delta) == IF delta = Null THEN Day ELSE delta[1]

EffectiveDelta(delta) == IF delta = Null \/ delta[1] = 0 THEN Day ELSE delta[1]

WholeSeconds(t) == (t \div TicksPerSecond) * TicksPerSecond

GateFailureIs403 ==
    [][ (/\ resp' # resp
         /\ resp'.op \in Protected \cup {"verify"}
         /\ ~ReadBack
         /\ ~TokenVerifies(resp'.cred, now)) =>
           /\ resp'.status = 403
           /\ resp'.cred # Null =>
                 resp'.detail =
                     IF /\ resp'.cred[1].wf
                        /\ resp'.cred[1].sig =
                               [key |-> SECRET_KEY, payload |-> resp'.cred[1].payload]
                        /\ resp'.cred[1].payload.sub # Null
                     THEN "Token expirado"
                     ELSE "Token invalido" ]_vars

\* C4: login answers with a token exactly when the submitted pair is the
\* configured admin pair, and otherwise with 401 and no token; a token that
\* login returned, presented to /admin/verify before its expiration, yields
\* valid with the login's username.
LoginThenVerify ==
    /\ resp.op = "login" =>
          /\ (resp.status = 200 /\ resp.token # Null)
                <=> (resp.user = "admin" /\ resp.pass = "admin123")
          /\ ~(resp.user = "admin" /\ resp.pass = "admin123")
                => (resp.status = 401 /\ resp.token = Null)
          /\ resp.token # Null => resp.token[1] \in Tokens(issued)
    /\ \A r \in issued : r.sub = Some("admin")
    /\ \A r \in issued :
          (/\ resp.op = "verify"
           /\ resp.cred = Some(r.token)
           /\ now < r.token.payload.exp * TicksPerSecond) =>
              /\ resp.status = 200
              /\ resp.username = r.sub

\* C4 witness: /admin/verify has answered valid for a token login returned.
VerifiedLoginToken ==
    /\ resp.op = "verify"
    /\ resp.status = 200
    /\ resp.username = Some("admin")
    /\ resp.cred \in {Some(tk) : tk \in Tokens(issued)}

\* C5: the write of an admitted update changes, in the product with the
\* request's id, only the fields the request body holds and updatedAt; its
\* other fields, id and createdAt among them, and every other product stay
\* as they were, and the other steps of the request write nothing.
UpdateFrame ==
    [][ /\ (inflight.pc = "write" /\ inflight'.pc = "read") =>
              /\ Len(store') = Len(store)
              /\ \A i \in 1..Len(store) :
                    IF store[i]["id"] = Some(inflight.id)
                    THEN \A f \in ProductFields \ (inflight.body.set \cup {"updatedAt"}) :
                             store'[i][f] = store[i][f]
                    ELSE store'[i] = store[i]
        /\ (inflight' # inflight /\ ~(inflight.pc = "write" /\ inflight'.pc = "read")) =>
              store' = store ]_vars

\* C5 witness: an update holding only a price has been written to one of
\* two stored products.
PriceOnlyUpdateWritten ==
    /\ inflight.pc = "read"
    /\ inflight.body.set = {"price"}
    /\ Len(store) = 2
    /\ \E i \in 1..Len(store) :
          /\ store[i]["id"] = Some(inflight.id)
          /\ store[i]["price"] = inflight.body.val["price"]
          /\ store[i]["name"] # Null

\* C6: get(id) returns a product exactly when a create has returned that id
\* and no delete(id) has succeeded since; once delete(id) has succeeded,
\* every later get(id), update(id, ...) and delete(id) answers 404; and
\* delete(id) removes no product but the one with that id.
ExistenceLifecycle ==
    [][ \A id \in ProductIds :
          /\ get_product(id) =>
                /\ (resp'.status = 200 /\ resp'.product # Null)
                      <=> (id < nextId /\ id \notin deleted)
                /\ id \in deleted => resp'.status = 404
          /\ \A c \in Credentials(issued) :
                (TokenVerifies(c, now) /\ id \in deleted) =>
                    /\ delete_product(c, id) => resp'.status = 404
                    /\ (\E b \in UpdateInputs : update_product_find(c, id, b)) =>
                          resp'.status = 404
          /\ \A c \in Credentials(issued) :
                delete_product(c, id) =>
                    \A i \in 1..Len(store) :
                        store[i]["id"] # Some(id) =>
                            \E j \in 1..Len(store') : store'[j] = store[i] ]_vars

\* C7: every product in the collection has price >= 0 and review count >= 0.
NonNegativePriceAndReviews ==
    \A i \in 1..Len(store) :
        /\ store[i]["price"] # Null => store[i]["price"][1] >= 0
        /\ store[i]["reviews"] # Null => store[i]["reviews"][1] >= 0

\* C8: list() returns all the products in the collection: the ids it returns
\* are the ids created and not deleted since, whatever the collection's size.
ListReturnsAll ==
    [][ (get_products /\ resp'.status = 200) =>
            {resp'.items[i]["id"][1] : i \in 1..Len(resp'.items)}
                = {id \in 1..(nextId - 1) : id \notin deleted} ]_vars

\* C9: an admitted update whose body holds no null ends with the updated
\* product or with 404, whatever deletes of the same product run between
\* its existence check, its write and its read-back.
UpdateEndsUpdatedOrNotFound ==
    [][ (/\ update_product_read
         /\ \A f \in inflight.body.set : inflight.body.val[f] # Null) =>
            \/ resp'.status = 200 /\ resp'.product # Null
            \/ resp'.status = 404 ]_vars

RequiredProductFields == RequiredFields \cup {"id", "createdAt", "updatedAt"}

\* C10: every document in the product collection has a non-null value for
\* every required Product field, update bodies with explicit nulls included.
StoredProductsValid ==
    \A i \in 1..Len(store) :
        \A f \in RequiredProductFields : store[i][f] # Null

====
